---- MODULE Spec2Model ----
(***************************************************************************)
(* Model of the sync_services backend: the auto-sync scheduler            *)
(* (services/sync_service.py), the repository backend's composed          *)
(* operations (services/git_service.py), the file store                   *)
(* (services/file_manager.py), the endpoints of main.py and the path      *)
(* sandbox (utils/path_utils.py).                                         *)
(*                                                                         *)
(* Everything runs on one asyncio event loop.  A coroutine runs without   *)
(* interruption until it suspends; the only suspension points of the      *)
(* scheduler are asyncio.sleep in _sync_loop and `await self._sync_task`  *)
(* in stop_auto_sync (perform_pull contains no await that suspends:       *)
(* GitService.pull is a synchronous call).  Each action of the scheduler  *)
(* is one such uninterrupted run, except that a run that calls            *)
(* GitService.pull is shown in two steps, the entry into pull (BeginPull) *)
(* and the rest of the run from pull's return, with nothing in between.   *)
(***************************************************************************)
EXTENDS Integers, Sequences, FiniteSets, TLC

VARIABLES
    repo_available,        \* GitService.repo is not None (fixed at construction)
    auto_pull_on_startup,  \* SyncConfig.auto_pull_on_startup
    auto_pull_interval,    \* SyncConfig.auto_pull_interval, in clock ticks
    is_running,            \* SyncService.is_running
    last_pull_time,        \* SyncService.last_pull_time (NoTime = None)
    sync_task,             \* SyncService._sync_task: index into tasks (NoTask = None)
    tasks,                 \* every asyncio.Task created for _sync_loop, in creation order
    stop_waiting,          \* tasks awaited by stop_auto_sync calls that have not returned
    now,                   \* datetime.now() / the event loop's clock
    last,                  \* the operation performed by the latest step and what it returned
    run_start,             \* clock reading when the latest start_auto_sync took effect
    startup_pulls,         \* perform_pull calls made by that start_auto_sync
    loop_pulls,            \* perform_pull calls made by _sync_loop since that start
    in_pull,               \* the calls of GitService.pull that have not returned yet
    wt_in,                 \* working tree has unstaged/untracked changes under files/
    wt_out,                \* working tree has unstaged/untracked changes elsewhere
    index_dirty,           \* index differs from HEAD
    commits,               \* commits created by add_and_commit
    pushes,                \* calls of GitService.push
    git_last,              \* the latest commit/push operation and what it returned
    user_path,             \* the relative_path argument of get_safe_path
    symlinks,              \* the symbolic links present in the filesystem
    safe_result,           \* what get_safe_path did with user_path
    store,                 \* the files directory: canonical path -> directory or file content
    file_last              \* the latest file operation and what it returned

vars == <<repo_available, auto_pull_on_startup, auto_pull_interval, is_running,
          last_pull_time, sync_task, tasks, stop_waiting, now, last, run_start,
          startup_pulls, loop_pulls, in_pull, wt_in, wt_out, index_dirty, commits, pushes,
          git_last, user_path, symlinks, safe_result, store, file_last>>

schedVars == <<is_running, last_pull_time, sync_task, tasks, stop_waiting, now,
               run_start, startup_pulls, loop_pulls, in_pull>>
configVars == <<repo_available, auto_pull_on_startup, auto_pull_interval>>
gitVars == <<wt_in, wt_out, index_dirty, commits, pushes, git_last>>
pathVars == <<user_path, symlinks, safe_result>>
fileVars == <<store, file_last>>

(***************************************************************************)
(* Bounds of the model.                                                    *)
(***************************************************************************)
MaxTime == 3         \* the clock stops advancing here
MaxTasks == 2        \* start_auto_sync takes effect at most this many times
MaxInterval == 2     \* auto_pull_interval ranges over 1..MaxInterval ticks
MaxCommits == 2      \* add_and_commit creates at most this many commits
MaxPushes == 2       \* push is called at most this many times
MaxPathLen == 6      \* user paths have at most this many characters

NoTime == -1         \* last_pull_time = None
NoTask == 0          \* _sync_task = None

(***************************************************************************)
(* Path sandbox (utils/path_utils.py).  A string is a sequence of          *)
(* one-character strings; a parsed path is a record of an absolute flag    *)
(* and its components; a canonical path is the sequence of components from *)
(* the filesystem root.                                                    *)
(***************************************************************************)
Chars == {"a", ".", "/", "\\", ":"}

Strings(n) == UNION {[1..k -> Chars] : k \in 0..n}

IllegalChars == {"<", ">", ":", "\"", "|", "?", "*"}

StripChars == {" ", "."}

RECURSIVE RemoveChars(_, _)
\* re.sub(r'[<>:"|?*]', '', path)
RemoveChars(s, set) ==
    IF s = <<>> THEN <<>>
    ELSE IF Head(s) \in set THEN RemoveChars(Tail(s), set)
    ELSE <<Head(s)>> \o RemoveChars(Tail(s), set)

RECURSIVE LStrip(_, _)
LStrip(s, set) ==
    IF s # <<>> /\ Head(s) \in set THEN LStrip(Tail(s), set) ELSE s

RECURSIVE RStrip(_, _)
RStrip(s, set) ==
    IF s # <<>> /\ s[Len(s)] \in set THEN RStrip(SubSeq(s, 1, Len(s) - 1), set) ELSE s

\* path.strip(' .')
Strip(s, set) == RStrip(LStrip(s, set), set)

\* path.replace('\\', '/')
ReplaceBackslash(s) == [i \in 1..Len(s) |-> IF s[i] = "\\" THEN "/" ELSE s[i]]

StartsWith(s, prefix) ==
    Len(s) >= Len(prefix) /\ SubSeq(s, 1, Len(prefix)) = prefix

RECURSIVE RemoveDotDotSlash(_)
\* re.sub(r'\.\./', '', path): one left-to-right pass over non-overlapping
\* matches; text the removal brings together is not rescanned.
RemoveDotDotSlash(s) ==
    IF s = <<>> THEN <<>>
    ELSE IF StartsWith(s, <<".", ".", "/">>)
    THEN RemoveDotDotSlash(SubSeq(s, 4, Len(s)))
    ELSE <<Head(s)>> \o RemoveDotDotSlash(Tail(s))

\* re.sub(r'^\.\.', '', path)
RemoveLeadingDotDot(s) ==
    IF StartsWith(s, <<".", ".">>) THEN SubSeq(s, 3, Len(s)) ELSE s

\* Faulty variant of sanitize_path: the strip(' .') step is missing.
sanitize_path_NoStrip(path) ==
    RemoveLeadingDotDot(RemoveDotDotSlash(
        ReplaceBackslash(RemoveChars(path, IllegalChars))))

\* sanitize_path: the five rewriting steps in the order of the source.
sanitize_path(path) ==
    RemoveLeadingDotDot(RemoveDotDotSlash(
        ReplaceBackslash(Strip(RemoveChars(path, IllegalChars), StripChars))))

RECURSIVE Split(_, _)
\* The pieces of s between `/` characters; cur is the piece being read.
Split(s, cur) ==
    IF s = <<>> THEN <<cur>>
    ELSE IF Head(s) = "/" THEN <<cur>> \o Split(Tail(s), <<>>)
    ELSE Split(Tail(s), Append(cur, Head(s)))

\* pathlib's parsing of a string: empty pieces and `.` pieces are dropped,
\* `..` pieces are kept.
Parts(s) == SelectSeq(Split(s, <<>>), LAMBDA c : c # <<>> /\ c # <<".">>)

ParsePath(s) == [absolute |-> s # <<>> /\ Head(s) = "/", parts |-> Parts(s)]

\* base_path / other: an absolute right operand replaces the left one.
JoinPath(base, other) ==
    IF other.absolute THEN other
    ELSE [absolute |-> base.absolute, parts |-> base.parts \o other.parts]

SymlinkAt(links, path) == {l \in links : l.link = path}

RECURSIVE ResolveParts(_, _, _)
\* Path.resolve() (non-strict): walk the components from the root, `..`
\* steps to the parent of what has been resolved so far, a component that is
\* a symbolic link is replaced by the link's (canonical) target, and a
\* component that does not exist is kept as it is.
ResolveParts(links, done, rest) ==
    IF rest = <<>> THEN done
    ELSE IF Head(rest) = <<".", ".">>
    THEN ResolveParts(links,
                      IF done = <<>> THEN <<>> ELSE SubSeq(done, 1, Len(done) - 1),
                      Tail(rest))
    ELSE LET next == Append(done, Head(rest))
             hit == SymlinkAt(links, next)
         IN  IF hit # {}
             THEN ResolveParts(links, (CHOOSE l \in hit : TRUE).target, Tail(rest))
             ELSE ResolveParts(links, next, Tail(rest))

\* FileManager.base_path = Path.cwd() / files_directory: an absolute path.
\* The process runs in the root directory and the files directory is `a`.
BasePath == [absolute |-> TRUE, parts |-> << <<"a">> >>]

Resolve(links, path) == ResolveParts(links, <<>>, path.parts)

\* Faulty variant of relative_to: a comparison of the paths' text.
IsRelativeTo_TextPrefix(path, other) ==
    /\ Len(path) >= Len(other)
    /\ \A i \in 1..Len(other) :
         IF i < Len(other) THEN path[i] = other[i]
         ELSE StartsWith(path[i], other[i])

\* PurePath.relative_to succeeds: other's components are the leading
\* components of path.
IsRelativeTo(path, other) ==
    /\ Len(path) >= Len(other)
    /\ \A i \in 1..Len(other) : path[i] = other[i]

NotCalled == [status |-> "idle", path |-> BasePath]

\* get_safe_path: full_path is returned, or ValueError is raised.
get_safe_path(links, base_path, relative_path) ==
    LET full_path == JoinPath(base_path, ParsePath(sanitize_path(relative_path)))
    IN  IF IsRelativeTo(Resolve(links, full_path), Resolve(links, base_path))
        THEN [status |-> "ok", path |-> full_path]
        ELSE [status |-> "ValueError", path |-> full_path]

(***************************************************************************)
(* File store (services/file_manager.py) and the file endpoints of         *)
(* main.py.  A file's content is pad bytes `a` followed by the listed      *)
(* bytes, so that sizes around the 512-byte scan, the 1 MiB display limit  *)
(* and max_file_size are values of the model.  Bytes: "a" (0x61), "CR"     *)
(* (0x0D), "LF" (0x0A), "NUL" (0x00) and "BAD" (0xFF, not valid UTF-8).    *)
(***************************************************************************)
BinaryChunk == 512                   \* is_binary_file reads f.read(512)
DisplayLimit == 1048576              \* get_file_content: st_size > 1024 * 1024
max_file_size == 10485760            \* SyncConfig.max_file_size = 10 * 1024 * 1024

Content(pad, bytes) == [pad |-> pad, bytes |-> bytes]

\* len(content) / stat().st_size
Size(c) == c.pad + Len(c.bytes)

NoContent == Content(0, <<>>)

File(c) == [kind |-> "file", content |-> c]
Dir == [kind |-> "dir", content |-> NoContent]

\* The canonical path of the files directory, which exists from construction.
BaseDir == Resolve({}, BasePath)

EmptyStore == (BaseDir :> Dir)

IsFile(st, p) == p \in DOMAIN st /\ st[p].kind = "file"
IsDir(st, p) == Len(p) < Len(BaseDir) \/ (p \in DOMAIN st /\ st[p].kind = "dir")

\* path.parent
Parent(parts) == IF parts = <<>> THEN <<>> ELSE SubSeq(parts, 1, Len(parts) - 1)

\* The directory and every directory above it.
Lineage(p) == {SubSeq(p, 1, k) : k \in 0..Len(p)}

\* parent.mkdir(parents=True, exist_ok=True) succeeds: nothing on the way is
\* a regular file.
MkdirOk(st, p) == \A q \in Lineage(p) : ~IsFile(st, q)

\* ... and creates the directories that were missing.
Mkdir(st, p) ==
    LET made == {q \in Lineage(p) : Len(q) >= Len(BaseDir) /\ q \notin DOMAIN st}
    IN  [q \in DOMAIN st \cup made |-> IF q \in DOMAIN st THEN st[q] ELSE Dir]

\* open(file_path, 'wb'); f.write(content)
WriteFile(st, p, c) == [q \in DOMAIN st \cup {p} |-> IF q = p THEN File(c) ELSE st[q]]

RECURSIVE JoinStr(_)
\* str(path): the components separated by `/` (`.` for no component).
JoinStr(parts) ==
    IF parts = <<>> THEN <<".">>
    ELSE IF Len(parts) = 1 THEN parts[1]
    ELSE parts[1] \o <<"/">> \o JoinStr(Tail(parts))

\* str(file_path.relative_to(self.base_path)).replace('\\', '/')
RelativeStr(path) ==
    ReplaceBackslash(JoinStr(SubSeq(path.parts, Len(BasePath.parts) + 1, Len(path.parts))))

NoPath == <<>>

\* FileManager.save_file: the saved path is returned or ValueError is raised,
\* and the store it leaves.
save_file(st, links, relative_path, content) ==
    LET safe == get_safe_path(links, BasePath, relative_path)
        file_path == safe.path
        target == Resolve(links, file_path)
        parent == Resolve(links, [file_path EXCEPT !.parts = Parent(@)])
        raise(s, inner) == [exc |-> "ValueError",
                            message |-> <<"Error saving file: ", inner>>,
                            saved_path |-> NoPath, store |-> s]
    IN  IF safe.status # "ok"
        THEN raise(st, "Path is not within the allowed directory")
        ELSE IF ~MkdirOk(st, parent)
        THEN raise(st, "FileExistsError or NotADirectoryError")
        ELSE IF IsDir(Mkdir(st, parent), target)
        THEN raise(Mkdir(st, parent), "IsADirectoryError")
        ELSE IF ~IsRelativeTo(file_path.parts, BasePath.parts)
        THEN raise(WriteFile(Mkdir(st, parent), target, content),
                   "path is not in the subpath of base_path")
        ELSE [exc |-> "none", message |-> <<>>,
              saved_path |-> RelativeStr(file_path),
              store |-> WriteFile(Mkdir(st, parent), target, content)]

\* is_binary_file: a NUL byte among the first 512 bytes.
is_binary_file(c) ==
    \E i \in 1..Len(c.bytes) : c.bytes[i] = "NUL" /\ c.pad + i <= BinaryChunk

RECURSIVE DecodeText(_)
\* open(file_path, 'r', encoding='utf-8', errors='replace').read(): bytes that
\* are not UTF-8 become U+FFFD, and (newline=None) `\r\n` and `\r` become `\n`.
DecodeText(bytes) ==
    IF bytes = <<>> THEN <<>>
    ELSE IF Head(bytes) = "CR"
    THEN IF Len(bytes) >= 2 /\ bytes[2] = "LF"
         THEN <<"LF">> \o DecodeText(Tail(Tail(bytes)))
         ELSE <<"LF">> \o DecodeText(Tail(bytes))
    ELSE IF Head(bytes) = "BAD" THEN <<"U+FFFD">> \o DecodeText(Tail(bytes))
    ELSE <<Head(bytes)>> \o DecodeText(Tail(bytes))

\* The text read from a file: pad characters `a` followed by chars.
Text(pad, chars) == [pad |-> pad, chars |-> chars]
NoText == Text(0, <<>>)

RECURSIVE EncodeText(_)
\* str.encode('utf-8') of the characters of a text
EncodeText(chars) ==
    IF chars = <<>> THEN <<>>
    ELSE (IF Head(chars) = "U+FFFD" THEN <<"EF", "BF", "BD">> ELSE <<Head(chars)>>)
         \o EncodeText(Tail(chars))

\* The exception raised inside the try block of FileManager.get_file_content,
\* or the content read.
read_file(st, links, relative_path) ==
    LET safe == get_safe_path(links, BasePath, relative_path)
        file_path == Resolve(links, safe.path)
        raise(type, msg) == [exc |-> type, message |-> <<msg>>,
                             content |-> NoText, size |-> 0]
    IN  IF safe.status # "ok"
        THEN raise("ValueError", "Path is not within the allowed directory")
        ELSE IF ~IsFile(st, file_path)
        THEN raise("FileNotFoundError", "File not found")
        ELSE IF is_binary_file(st[file_path].content)
        THEN raise("ValueError", "Cannot display binary file content")
        ELSE IF Size(st[file_path].content) > DisplayLimit
        THEN raise("ValueError", "File too large to display (max 1MB)")
        ELSE [exc |-> "none", message |-> <<>>,
              content |-> Text(st[file_path].content.pad,
                               DecodeText(st[file_path].content.bytes)),
              size |-> Size(st[file_path].content)]

\* FileManager.get_file_content: `except Exception as e: raise ValueError(...)`
\* encloses the whole body.
get_file_content(st, links, relative_path) ==
    LET r == read_file(st, links, relative_path)
    IN  IF r.exc = "none" THEN r
        ELSE [r EXCEPT !.exc = "ValueError",
                       !.message = <<"Error reading file: ">> \o @]

\* GET /files/{file_path}: the status code of the response.
get_file_status(exc) ==
    IF exc = "none" THEN 200
    ELSE IF exc = "FileNotFoundError" THEN 404
    ELSE 500

\* An uploaded file of the multipart request.
UploadFile(filename, content) == [filename |-> filename, content |-> content]

\* The one element of a singleton set.
The(S) == CHOOSE v \in S : TRUE

RECURSIVE upload_loop(_, _, _, _, _, _, _)
\* The for loop of upload_files: the exception that leaves it (with the index
\* of the file that raised it) or the list of saved paths, the store it
\* leaves and the indices of the files passed to save_file.  `saved` is the
\* outcome of the one call of save_file of an iteration that reaches it.
upload_loop(st, links, files, path, i, uploaded_files, passed) ==
    IF i > Len(files)
    THEN [exc |-> "none", status_code |-> 200, at |-> 0, store |-> st,
          uploaded_files |-> uploaded_files, passed |-> passed]
    ELSE IF files[i].filename = <<>>
    THEN upload_loop(st, links, files, path, i + 1, uploaded_files, passed)
    ELSE IF Size(files[i].content) > max_file_size
    THEN [exc |-> "HTTPException", status_code |-> 413, at |-> i,
          store |-> st, uploaded_files |-> uploaded_files,
          passed |-> passed]
    ELSE LET file_path == IF path # <<>>
                          THEN Strip(path, {"/"}) \o <<"/">> \o files[i].filename
                          ELSE files[i].filename
         IN  The({IF saved.exc # "none"
                  THEN [exc |-> saved.exc, status_code |-> 0, at |-> i,
                        store |-> saved.store, uploaded_files |-> uploaded_files,
                        passed |-> passed \cup {i}]
                  ELSE upload_loop(saved.store, links, files, path, i + 1,
                                   Append(uploaded_files, saved.saved_path),
                                   passed \cup {i}) :
                  saved \in {save_file(st, links, file_path, files[i].content)}})

\* Faulty variant of upload_files: a request that fails leaves the files
\* directory as it found it.
upload_files_Rollback(st, links, files, path) ==
    LET r == upload_loop(st, links, files, path, 1, <<>>, {})
    IN  IF r.exc = "none"
        THEN [status_code |-> 200, success |-> TRUE,
              uploaded_files |-> r.uploaded_files, raised |-> r]
        ELSE [status_code |-> 500, success |-> FALSE,
              uploaded_files |-> <<>>, raised |-> [r EXCEPT !.store = st]]

\* POST /upload: `except Exception` encloses the loop, so whatever leaves it
\* (the HTTPException of the size check too) is answered with status 500 and
\* a detail string; otherwise the UploadResponse lists the saved paths.
upload_files(st, links, files, path) ==
    LET r == upload_loop(st, links, files, path, 1, <<>>, {})
    IN  IF r.exc = "none"
        THEN [status_code |-> 200, success |-> TRUE,
              uploaded_files |-> r.uploaded_files, raised |-> r]
        ELSE [status_code |-> 500, success |-> FALSE,
              uploaded_files |-> <<>>, raised |-> r]

\* The latest file operation: what was asked, and what came back.
FileCall(op, path, content, files, exc, message, status_code, text, saved, raised) ==
    [op |-> op, path |-> path, content |-> content, files |-> files, exc |-> exc,
     message |-> message, status_code |-> status_code, text |-> text,
     saved |-> saved, raised |-> raised]

NoRaise == [exc |-> "none", status_code |-> 0, at |-> 0, passed |-> {}]

NoFileCall == FileCall("none", <<>>, NoContent, <<>>, "none", <<>>, 0, NoText, <<>>, NoRaise)

(***************************************************************************)
(* GitOperation values (models/file_metadata.py).  details is kept as the  *)
(* sequence of the pieces the f-strings concatenate.                       *)
(***************************************************************************)
GitOperation(success, message, details) ==
    [success |-> success, message |-> message, details |-> details]

NoResult == GitOperation(FALSE, "-", <<>>)

\* The record kept in `git_last`.
GitCall(op, commit_res, created, pushed, push_res, result) ==
    [op |-> op, commit |-> commit_res, created |-> created, pushed |-> pushed,
     push |-> push_res, result |-> result]

NoGitCall == GitCall("none", NoResult, FALSE, FALSE, NoResult, NoResult)

RepoUnavailable ==
    GitOperation(FALSE, "Git repository not available",
                 <<"Please initialize a Git repository first">>)

(***************************************************************************)
(* What origin.pull can do: return fetch info, return nothing, raise      *)
(* GitCommandError (text mentioning a conflict, an authentication failure  *)
(* or neither) or raise another exception (text mentioning authentication  *)
(* or not).                                                                *)
(***************************************************************************)
PullEnv == {"info", "empty", "git_conflict", "git_auth", "git_other",
            "exc_auth", "exc_other"}

\* The behaviours of origin.pull the scheduler is run against: one that
\* succeeds, one GitCommandError and one other exception.
PullInputs == {"info", "git_conflict", "exc_other"}

\* GitService.pull: every exception is turned into a failed GitOperation.
Pull(env) ==
    IF ~repo_available THEN RepoUnavailable
    ELSE CASE env = "info" ->
                GitOperation(TRUE, "Successfully pulled changes", <<"Pulled from origin">>)
           [] env = "empty" ->
                GitOperation(TRUE, "Already up to date", <<"No changes to pull">>)
           [] env = "git_conflict" ->
                GitOperation(FALSE, "Merge conflict detected",
                             <<"Please resolve conflicts manually and try again">>)
           [] env = "git_auth" ->
                GitOperation(FALSE, "Authentication failed", <<"Please set up SSH keys">>)
           [] env = "git_other" ->
                GitOperation(FALSE, "Failed to pull changes", <<"GitCommandError">>)
           [] env = "exc_auth" ->
                GitOperation(FALSE, "Authentication required",
                             <<"Please configure Git authentication">>)
           [] OTHER ->
                GitOperation(FALSE, "Failed to pull changes", <<"Exception">>)

\* Faulty variant of perform_pull: records the time only for a successful pull.
PerformPull_RecordOnSuccess(env) ==
    IF ~repo_available
    THEN [ret |-> FALSE, lpt |-> last_pull_time, called |-> FALSE, res |-> NoResult]
    ELSE LET result == Pull(env)
         IN  [ret |-> result.success,
              lpt |-> IF result.success THEN now ELSE last_pull_time,
              called |-> TRUE, res |-> result]

\* Faulty variant of perform_pull: reports success whatever the pull returned.
PerformPull_AlwaysTrue(env) ==
    IF ~repo_available
    THEN [ret |-> FALSE, lpt |-> last_pull_time, called |-> FALSE, res |-> NoResult]
    ELSE LET result == Pull(env)
         IN  [ret |-> TRUE, lpt |-> now, called |-> TRUE, res |-> result]

(***************************************************************************)
(* SyncService.perform_pull, as the values it produces: what it returns,   *)
(* the new last_pull_time, whether git_service.pull was invoked and with   *)
(* what result.                                                            *)
(***************************************************************************)
PerformPull(env) ==
    IF ~repo_available
    THEN [ret |-> FALSE, lpt |-> last_pull_time, called |-> FALSE, res |-> NoResult]
    ELSE LET result == Pull(env)
         IN  [ret |-> result.success, lpt |-> now, called |-> TRUE, res |-> result]

\* The record kept in `last`: which operation the step performed, on whose
\* behalf, what it returned, and the task it concerned.
Ev(op, caller, p, task, noop) ==
    [op |-> op, caller |-> caller, ret |-> p.ret, called |-> p.called,
     res |-> p.res, task |-> task, noop |-> noop]

NoPull == [ret |-> FALSE, lpt |-> NoTime, called |-> FALSE, res |-> NoResult]

NewTask == [state |-> "pending", must_cancel |-> FALSE, wake |-> 0]

TaskIds == 1..Len(tasks)

\* A call of GitService.pull: who makes it, and for the loop, which task.
PullCall(caller, task) == [caller |-> caller, task |-> task]

\* The event loop's thread is not inside GitService.pull.  The handlers are
\* coroutines of one event loop and pull is a synchronous call (GitPython
\* runs git and waits for it), so nothing else runs until pull returns.
Idle == in_pull = {}

\* What in_pull holds when the step that ends a handler's run is taken: the
\* handler's own call if this run calls GitService.pull, nothing otherwise.
Returning(calls, caller, task) == in_pull = IF calls THEN {PullCall(caller, task)} ELSE {}

\* Faulty variant of Task.cancel(): the task is left as it is (the loop would
\* end only through its is_running test).
Cancel_NoEffect(task) == task

\* Task.cancel(): a task waiting in asyncio.sleep has its sleep future
\* cancelled and is rescheduled to receive CancelledError; a task that is
\* scheduled but not running is marked to receive it; a finished task is
\* not affected.
Cancel(task) ==
    CASE task.state = "done" -> task
      [] task.state = "sleeping" -> [task EXCEPT !.state = "ready", !.must_cancel = TRUE]
      [] OTHER -> [task EXCEPT !.must_cancel = TRUE]

\* Faulty variant of start_auto_sync: the is_running test is missing.
StartAutoSync_NoGuard ==
    /\ Len(tasks) < MaxTasks
    /\ in_pull \subseteq {PullCall("startup", NoTask)}
    /\ in_pull' = {}
    /\ \E env \in PullInputs :
         LET p == IF auto_pull_on_startup THEN PerformPull(env)
                  ELSE [NoPull EXCEPT !.lpt = last_pull_time]
         IN  /\ is_running' = TRUE
             /\ last_pull_time' = p.lpt
             /\ tasks' = Append(tasks, NewTask)
             /\ sync_task' = Len(tasks) + 1
             /\ run_start' = now
             /\ startup_pulls' = IF auto_pull_on_startup THEN 1 ELSE 0
             /\ loop_pulls' = 0
             /\ last' = Ev("start_auto_sync", "startup", p, Len(tasks) + 1, FALSE)
    /\ UNCHANGED <<stop_waiting, now, configVars, fileVars, gitVars, pathVars>>

(***************************************************************************)
(* SyncService.start_auto_sync.  No step of it suspends, so it is atomic.  *)
(***************************************************************************)
StartAutoSync ==
    IF Idle /\ is_running
    THEN /\ last' = Ev("start_auto_sync", "api", NoPull, sync_task, TRUE)
         /\ UNCHANGED <<schedVars, configVars, fileVars, gitVars, pathVars>>
    ELSE /\ Len(tasks) < MaxTasks
         /\ Returning(auto_pull_on_startup /\ repo_available, "startup", NoTask)
         /\ in_pull' = {}
         /\ \E env \in PullInputs :
              LET p == IF auto_pull_on_startup THEN PerformPull(env)
                       ELSE [NoPull EXCEPT !.lpt = last_pull_time]
              IN  /\ is_running' = TRUE
                  /\ last_pull_time' = p.lpt
                  /\ tasks' = Append(tasks, NewTask)
                  /\ sync_task' = Len(tasks) + 1
                  /\ run_start' = now
                  /\ startup_pulls' = IF auto_pull_on_startup THEN 1 ELSE 0
                  /\ loop_pulls' = 0
                  /\ last' = Ev("start_auto_sync", "startup", p, Len(tasks) + 1, FALSE)
         /\ UNCHANGED <<stop_waiting, now, configVars, fileVars, gitVars, pathVars>>

(***************************************************************************)
(* SyncService.stop_auto_sync up to `await self._sync_task`.               *)
(***************************************************************************)
StopAutoSync ==
    /\ Idle
    /\ IF ~is_running
       THEN /\ last' = Ev("stop_auto_sync", "api", NoPull, sync_task, TRUE)
            /\ UNCHANGED <<schedVars, configVars, fileVars, gitVars, pathVars>>
       ELSE /\ is_running' = FALSE
            /\ IF sync_task # NoTask
               THEN /\ tasks' = [tasks EXCEPT ![sync_task] = Cancel(@)]
                    /\ stop_waiting' = stop_waiting \cup {sync_task}
               ELSE UNCHANGED <<tasks, stop_waiting>>
            /\ last' = Ev("stop_auto_sync", "api", NoPull, sync_task, FALSE)
            /\ UNCHANGED <<last_pull_time, sync_task, now, run_start, startup_pulls, in_pull,
                           loop_pulls, configVars, fileVars, gitVars, pathVars>>

\* Faulty variant of stop_auto_sync: it returns without waiting for the task.
StopReturn_NoJoin(t) ==
    /\ Idle
    /\ t \in stop_waiting
    /\ stop_waiting' = stop_waiting \ {t}
    /\ last' = Ev("stop_return", "api", NoPull, t, FALSE)
    /\ UNCHANGED <<is_running, last_pull_time, sync_task, tasks, now, run_start,
                   startup_pulls, in_pull, loop_pulls, configVars, fileVars, gitVars, pathVars>>

\* stop_auto_sync resumes from `await self._sync_task` once the task has
\* finished, and returns.
StopReturn(t) ==
    /\ Idle
    /\ t \in stop_waiting
    /\ tasks[t].state = "done"
    /\ stop_waiting' = stop_waiting \ {t}
    /\ last' = Ev("stop_return", "api", NoPull, t, FALSE)
    /\ UNCHANGED <<is_running, last_pull_time, sync_task, tasks, now, run_start,
                   startup_pulls, in_pull, loop_pulls, configVars, fileVars, gitVars, pathVars>>

(***************************************************************************)
(* SyncService._sync_loop.                                                 *)
(***************************************************************************)
\* Faulty variant of _sync_loop: it pulls before its first sleep.
SyncLoopBegin_PullFirst(t) ==
    /\ Idle
    /\ in_pull' = {}
    /\ t \in TaskIds
    /\ tasks[t].state = "pending"
    /\ IF tasks[t].must_cancel \/ ~is_running
       THEN /\ tasks' = [tasks EXCEPT ![t].state = "done"]
            /\ last' = Ev("sync_loop_begin", "loop", NoPull, t, FALSE)
            /\ UNCHANGED <<last_pull_time, loop_pulls>>
       ELSE \E env \in PullInputs :
              LET p == PerformPull(env)
              IN  /\ last_pull_time' = p.lpt
                  /\ loop_pulls' = loop_pulls + 1
                  /\ tasks' = [tasks EXCEPT ![t].state = "sleeping",
                                            ![t].wake = now + auto_pull_interval]
                  /\ last' = Ev("perform_pull", "loop", p, t, FALSE)
    /\ UNCHANGED <<is_running, sync_task, stop_waiting, now, run_start,
                   startup_pulls, configVars, fileVars, gitVars, pathVars>>

\* First step of the task: a cancellation requested before the task ever ran
\* ends it before the body is entered; otherwise the while test is evaluated
\* and the task suspends in asyncio.sleep.
SyncLoopBegin(t) ==
    /\ Idle
    /\ t \in TaskIds
    /\ tasks[t].state = "pending"
    /\ tasks' = [tasks EXCEPT ![t] =
                    IF @.must_cancel \/ ~is_running
                    THEN [@ EXCEPT !.state = "done"]
                    ELSE [@ EXCEPT !.state = "sleeping",
                                   !.wake = now + auto_pull_interval]]
    /\ last' = Ev("sync_loop_begin", "loop", NoPull, t, FALSE)
    /\ UNCHANGED <<is_running, last_pull_time, sync_task, stop_waiting, now,
                   run_start, startup_pulls, in_pull, loop_pulls, configVars, fileVars, gitVars, pathVars>>

\* The timer of asyncio.sleep fires and the task is scheduled to resume.
SleepElapsed(t) ==
    /\ Idle
    /\ t \in TaskIds
    /\ tasks[t].state = "sleeping"
    /\ tasks[t].wake <= now
    /\ tasks' = [tasks EXCEPT ![t].state = "ready"]
    /\ last' = Ev("sleep_elapsed", "loop", NoPull, t, FALSE)
    /\ UNCHANGED <<is_running, last_pull_time, sync_task, stop_waiting, now,
                   run_start, startup_pulls, in_pull, loop_pulls, configVars, fileVars, gitVars, pathVars>>

\* Faulty variant of _sync_loop: a pull that fails ends the loop.
SyncLoopResume_StopOnFailure(t) ==
    /\ t \in TaskIds
    /\ tasks[t].state = "ready"
    /\ Returning(~tasks[t].must_cancel /\ is_running /\ repo_available, "loop", t)
    /\ in_pull' = {}
    /\ IF tasks[t].must_cancel
       THEN /\ tasks' = [tasks EXCEPT ![t].state = "done"]
            /\ last' = Ev("sync_loop_cancelled", "loop", NoPull, t, FALSE)
            /\ UNCHANGED <<last_pull_time, loop_pulls>>
       ELSE IF is_running
       THEN \E env \in PullInputs :
              LET p == PerformPull(env)
              IN  /\ last_pull_time' = p.lpt
                  /\ loop_pulls' = loop_pulls + 1
                  /\ tasks' = IF p.ret
                              THEN [tasks EXCEPT ![t].state = "sleeping",
                                                 ![t].wake = now + auto_pull_interval]
                              ELSE [tasks EXCEPT ![t].state = "done"]
                  /\ last' = Ev("perform_pull", "loop", p, t, FALSE)
       ELSE /\ tasks' = [tasks EXCEPT ![t].state = "done"]
            /\ last' = Ev("sync_loop_exit", "loop", NoPull, t, FALSE)
            /\ UNCHANGED <<last_pull_time, loop_pulls>>
    /\ UNCHANGED <<is_running, sync_task, stop_waiting, now, run_start,
                   startup_pulls, configVars, fileVars, gitVars, pathVars>>

\* Faulty variant of _sync_loop: a cancellation is not delivered at the
\* sleep, only the is_running test decides.
SyncLoopResume_IgnoreCancel(t) ==
    /\ t \in TaskIds
    /\ tasks[t].state = "ready"
    /\ in_pull \subseteq {PullCall("loop", t)}
    /\ in_pull' = {}
    /\ IF is_running
       THEN \E env \in PullInputs :
              LET p == PerformPull(env)
              IN  /\ last_pull_time' = p.lpt
                  /\ loop_pulls' = loop_pulls + 1
                  /\ tasks' = [tasks EXCEPT ![t].state = "sleeping",
                                            ![t].wake = now + auto_pull_interval]
                  /\ last' = Ev("perform_pull", "loop", p, t, FALSE)
       ELSE /\ tasks' = [tasks EXCEPT ![t].state = "done"]
            /\ last' = Ev("sync_loop_exit", "loop", NoPull, t, FALSE)
            /\ UNCHANGED <<last_pull_time, loop_pulls>>
    /\ UNCHANGED <<is_running, sync_task, stop_waiting, now, run_start,
                   startup_pulls, configVars, fileVars, gitVars, pathVars>>

\* The task resumes from asyncio.sleep: with CancelledError if it was
\* cancelled (caught, the loop ends); otherwise it re-checks is_running,
\* pulls, tests the while condition and sleeps again.
SyncLoopResume(t) ==
    /\ t \in TaskIds
    /\ tasks[t].state = "ready"
    /\ Returning(~tasks[t].must_cancel /\ is_running /\ repo_available, "loop", t)
    /\ in_pull' = {}
    /\ IF tasks[t].must_cancel
       THEN /\ tasks' = [tasks EXCEPT ![t].state = "done"]
            /\ last' = Ev("sync_loop_cancelled", "loop", NoPull, t, FALSE)
            /\ UNCHANGED <<last_pull_time, loop_pulls>>
       ELSE IF is_running
       THEN \E env \in PullInputs :
              LET p == PerformPull(env)
              IN  /\ last_pull_time' = p.lpt
                  /\ loop_pulls' = loop_pulls + 1
                  /\ tasks' = [tasks EXCEPT ![t].state = "sleeping",
                                            ![t].wake = now + auto_pull_interval]
                  /\ last' = Ev("perform_pull", "loop", p, t, FALSE)
       ELSE /\ tasks' = [tasks EXCEPT ![t].state = "done"]
            /\ last' = Ev("sync_loop_exit", "loop", NoPull, t, FALSE)
            /\ UNCHANGED <<last_pull_time, loop_pulls>>
    /\ UNCHANGED <<is_running, sync_task, stop_waiting, now, run_start,
                   startup_pulls, configVars, fileVars, gitVars, pathVars>>

(***************************************************************************)
(* Endpoints of main.py that touch the scheduler or pull.                  *)
(***************************************************************************)
\* POST /sync/manual-pull
ManualSyncPull ==
    /\ Returning(repo_available, "manual", NoTask)
    /\ in_pull' = {}
    /\ \E env \in PullInputs :
         LET p == PerformPull(env)
         IN  /\ last_pull_time' = p.lpt
             /\ last' = Ev("perform_pull", "manual", p, NoTask, FALSE)
    /\ UNCHANGED <<is_running, sync_task, tasks, stop_waiting, now, run_start,
                   startup_pulls, loop_pulls, configVars, fileVars, gitVars, pathVars>>

\* Faulty variant of the /git/pull endpoint: it also stamps last_pull_time.
PullChanges_Records ==
    /\ Returning(repo_available, "api", NoTask)
    /\ in_pull' = {}
    /\ \E env \in PullInputs :
         LET r == Pull(env)
         IN  last' = Ev("git_pull", "api",
                        [ret |-> r.success, lpt |-> now,
                         called |-> TRUE, res |-> r], NoTask, FALSE)
    /\ last_pull_time' = now
    /\ UNCHANGED <<is_running, sync_task, tasks, stop_waiting, now, run_start,
                   startup_pulls, loop_pulls, configVars, fileVars, gitVars, pathVars>>

\* POST /git/pull
PullChanges ==
    /\ Returning(repo_available, "api", NoTask)
    /\ in_pull' = {}
    /\ \E env \in PullInputs :
         LET r == Pull(env)
         IN  last' = Ev("git_pull", "api",
                        [ret |-> r.success, lpt |-> last_pull_time,
                         called |-> TRUE, res |-> r], NoTask, FALSE)
    /\ UNCHANGED <<is_running, last_pull_time, sync_task, tasks, stop_waiting, now,
                   run_start, startup_pulls, loop_pulls, configVars, fileVars, gitVars, pathVars>>

\* SyncService.get_sync_status, as the dictionary it returns.
SyncStatus ==
    [is_running |-> is_running, last_pull_time |-> last_pull_time,
     auto_pull_interval |-> auto_pull_interval,
     auto_pull_on_startup |-> auto_pull_on_startup]

\* GET /sync/status
GetSyncStatus ==
    /\ Idle
    /\ last' = Ev("get_sync_status", "api", NoPull, NoTask, FALSE)
    /\ UNCHANGED <<schedVars, configVars, fileVars, gitVars, pathVars>>

(***************************************************************************)
(* GitService.pull is entered.  perform_pull calls it when the repository  *)
(* is available (start_auto_sync has set is_running by then, and the loop  *)
(* has passed its is_running test); the /git/pull endpoint calls it        *)
(* directly.  The step that ends the caller's run is the return from pull. *)
(***************************************************************************)
\* Faulty variant of BeginPull: the call does not wait for the thread (as if
\* the handlers ran on the threads of a pool).
BeginPull_NoWait(caller, t) ==
    /\ repo_available
    /\ PullCall(caller, t) \notin in_pull
    /\ CASE caller = "startup" ->
              t = NoTask /\ ~is_running /\ auto_pull_on_startup /\ Len(tasks) < MaxTasks
         [] caller = "loop" ->
              /\ t \in TaskIds
              /\ tasks[t].state = "ready"
              /\ ~tasks[t].must_cancel
              /\ is_running
         [] OTHER -> t = NoTask
    /\ in_pull' = in_pull \cup {PullCall(caller, t)}
    /\ is_running' = IF caller = "startup" THEN TRUE ELSE is_running
    /\ last' = Ev("pull_begin", caller, NoPull, t, FALSE)
    /\ UNCHANGED <<last_pull_time, sync_task, tasks, stop_waiting, now, run_start,
                   startup_pulls, loop_pulls, configVars, fileVars, gitVars, pathVars>>

PullCallers == {"startup", "loop", "manual", "api"}

BeginPull(caller, t) ==
    /\ Idle
    /\ repo_available
    /\ CASE caller = "startup" ->
              t = NoTask /\ ~is_running /\ auto_pull_on_startup /\ Len(tasks) < MaxTasks
         [] caller = "loop" ->
              /\ t \in TaskIds
              /\ tasks[t].state = "ready"
              /\ ~tasks[t].must_cancel
              /\ is_running
         [] OTHER -> t = NoTask
    /\ in_pull' = in_pull \cup {PullCall(caller, t)}
    /\ is_running' = IF caller = "startup" THEN TRUE ELSE is_running
    /\ last' = Ev("pull_begin", caller, NoPull, t, FALSE)
    /\ UNCHANGED <<last_pull_time, sync_task, tasks, stop_waiting, now, run_start,
                   startup_pulls, loop_pulls, configVars, fileVars, gitVars, pathVars>>

(***************************************************************************)
(* Time.  The event loop runs every callback that is ready before it goes  *)
(* back to waiting for timers, and a pull takes no model time: the clock   *)
(* advances only when no task step and no resumption of stop_auto_sync is  *)
(* due.                                                                    *)
(***************************************************************************)
Due ==
    \/ \E t \in TaskIds :
         \/ tasks[t].state \in {"pending", "ready"}
         \/ tasks[t].state = "sleeping" /\ tasks[t].wake <= now
    \/ \E t \in stop_waiting : tasks[t].state = "done"

Tick ==
    /\ Idle
    /\ now < MaxTime
    /\ ~Due
    /\ now' = now + 1
    /\ last' = Ev("tick", "clock", NoPull, NoTask, FALSE)
    /\ UNCHANGED <<is_running, last_pull_time, sync_task, tasks, stop_waiting,
                   run_start, startup_pulls, in_pull, loop_pulls, configVars, fileVars, gitVars, pathVars>>

(***************************************************************************)
(* The scheduler's specification.                                          *)
(***************************************************************************)
Init ==
    /\ repo_available \in BOOLEAN
    /\ auto_pull_on_startup \in BOOLEAN
    /\ auto_pull_interval \in 1..MaxInterval
    /\ is_running = FALSE
    /\ last_pull_time = NoTime
    /\ sync_task = NoTask
    /\ tasks = <<>>
    /\ stop_waiting = {}
    /\ now = 0
    /\ last = Ev("init", "api", NoPull, NoTask, FALSE)
    /\ run_start = 0
    /\ startup_pulls = 0
    /\ loop_pulls = 0
    /\ in_pull = {}
    /\ wt_in = FALSE
    /\ wt_out = FALSE
    /\ index_dirty = FALSE
    /\ commits = 0
    /\ pushes = 0
    /\ git_last = NoGitCall
    /\ user_path = <<>>
    /\ symlinks = {}
    /\ safe_result = NotCalled
    /\ store = EmptyStore
    /\ file_last = NoFileCall

Next ==
    \/ StartAutoSync
    \/ StopAutoSync
    \/ \E t \in stop_waiting : StopReturn(t)
    \/ \E t \in TaskIds : SyncLoopBegin(t)
    \/ \E t \in TaskIds : SleepElapsed(t)
    \/ \E t \in TaskIds : SyncLoopResume(t)
    \/ \E caller \in PullCallers, t \in TaskIds \cup {NoTask} : BeginPull(caller, t)
    \/ ManualSyncPull
    \/ PullChanges
    \/ GetSyncStatus
    \/ Tick

Spec == Init /\ [][Next]_vars

(***************************************************************************)
(* The path sandbox applied to every short user path, under each of a few  *)
(* filesystems.                                                            *)
(***************************************************************************)
P1(a) == <<a>>
P2(a, b) == <<a, b>>

\* No link; a link inside the files directory that leaves it; a link
\* outside it that leads into it; a link inside it that stays inside.
SymlinkConfigs ==
    { {},
      {[link |-> P2(<<"a">>, <<"a">>), target |-> <<>>]},
      {[link |-> P1(<<"a", "a">>), target |-> P1(<<"a">>)]},
      {[link |-> P2(<<"a">>, <<"a">>), target |-> P2(<<"a">>, <<"a", "a">>)]} }

PathInit ==
    /\ repo_available = TRUE
    /\ auto_pull_on_startup = TRUE
    /\ auto_pull_interval = 1
    /\ is_running = FALSE
    /\ last_pull_time = NoTime
    /\ sync_task = NoTask
    /\ tasks = <<>>
    /\ stop_waiting = {}
    /\ now = 0
    /\ last = Ev("init", "api", NoPull, NoTask, FALSE)
    /\ run_start = 0
    /\ startup_pulls = 0
    /\ loop_pulls = 0
    /\ in_pull = {}
    /\ wt_in = FALSE
    /\ wt_out = FALSE
    /\ index_dirty = FALSE
    /\ commits = 0
    /\ pushes = 0
    /\ git_last = NoGitCall
    /\ user_path \in Strings(MaxPathLen)
    /\ symlinks \in SymlinkConfigs
    /\ safe_result = NotCalled
    /\ store = EmptyStore
    /\ file_last = NoFileCall

GetSafePath ==
    /\ safe_result.status = "idle"
    /\ safe_result' = get_safe_path(symlinks, BasePath, user_path)
    /\ last' = Ev("get_safe_path", "api", NoPull, NoTask, FALSE)
    /\ UNCHANGED <<schedVars, configVars, fileVars, gitVars, user_path, symlinks>>

PathNext == GetSafePath

PathSpec == PathInit /\ [][PathNext]_vars

(***************************************************************************)
(* GitService.add_and_commit, push and commit_and_push.  The repository is *)
(* described by whether the working tree has changes under the staged      *)
(* pattern (files/) or outside it, and whether the index differs from HEAD.*)
(***************************************************************************)
\* What the git commands of add_and_commit can do: succeed, or raise in
\* `git add` (for example a pathspec that matches nothing) or in the commit.
CommitEnv == {"ok", "add_raises", "commit_raises"}

\* add_and_commit, as the result it returns and the repository it leaves.
add_and_commit(env) ==
    LET same(r) == [res |-> r, wt_in |-> wt_in, index_dirty |-> index_dirty,
                    commits |-> commits, created |-> FALSE]
        staged == index_dirty \/ wt_in
    IN  IF ~repo_available THEN same(RepoUnavailable)
        ELSE IF env = "add_raises"
        THEN same(GitOperation(FALSE, "Failed to commit changes", <<"git add failed">>))
        ELSE IF ~(staged \/ wt_out)
        THEN [res |-> GitOperation(TRUE, "No changes to commit", <<"Working tree is clean">>),
              wt_in |-> FALSE, index_dirty |-> staged, commits |-> commits,
              created |-> FALSE]
        ELSE IF env = "commit_raises"
        THEN [res |-> GitOperation(FALSE, "Failed to commit changes", <<"commit failed">>),
              wt_in |-> FALSE, index_dirty |-> staged, commits |-> commits,
              created |-> FALSE]
        ELSE [res |-> GitOperation(TRUE, "Successfully committed changes",
                                   <<"Commit hexsha: message">>),
              wt_in |-> FALSE, index_dirty |-> FALSE, commits |-> commits + 1,
              created |-> TRUE]

\* What origin.push can do: succeed, report the ERROR flag (summary
\* mentioning authentication or not), raise GitCommandError (authentication,
\* remote rejected, other) or raise another exception.
PushEnv == {"ok", "flag_auth", "flag_error", "git_auth", "git_rejected",
            "git_other", "exc_auth", "exc_other"}

\* GitService.push
push(env) ==
    IF ~repo_available THEN RepoUnavailable
    ELSE CASE env = "ok" ->
                GitOperation(TRUE, "Successfully pushed changes", <<"Pushed to origin">>)
           [] env = "flag_auth" ->
                GitOperation(FALSE, "Authentication failed", <<"See README">>)
           [] env = "flag_error" ->
                GitOperation(FALSE, "Push failed", <<"summary">>)
           [] env = "git_auth" ->
                GitOperation(FALSE, "Authentication failed", <<"Check your Git credentials">>)
           [] env = "git_rejected" ->
                GitOperation(FALSE, "Push rejected by remote", <<"You may need to pull first">>)
           [] env = "git_other" ->
                GitOperation(FALSE, "Push failed", <<"GitCommandError">>)
           [] env = "exc_auth" ->
                GitOperation(FALSE, "Authentication required",
                             <<"Please configure Git authentication">>)
           [] OTHER ->
                GitOperation(FALSE, "Failed to push changes", <<"Exception">>)

\* Faulty variant of commit_and_push: no short-circuit when nothing was committed.
commit_and_push_AlwaysPush(cenv, penv) ==
    LET c == add_and_commit(cenv)
        push_result == push(penv)
    IN  IF ~c.res.success
        THEN [commit |-> c, pushed |-> FALSE, push_res |-> NoResult, result |-> c.res]
        ELSE IF ~push_result.success
        THEN [commit |-> c, pushed |-> TRUE, push_res |-> push_result,
              result |-> GitOperation(FALSE, "Commit successful but push failed",
                            <<"Commit: ">> \o c.res.details \o <<". Push error: ">>
                                \o push_result.details)]
        ELSE [commit |-> c, pushed |-> TRUE, push_res |-> push_result,
              result |-> GitOperation(TRUE, "Successfully committed and pushed changes",
                            c.res.details \o <<". ">> \o push_result.details)]

\* GitService.commit_and_push: the commit step's outcome, whether push was
\* called and with what result, and the GitOperation returned.
commit_and_push(cenv, penv) ==
    LET c == add_and_commit(cenv)
        push_result == push(penv)
    IN  IF ~c.res.success
        THEN [commit |-> c, pushed |-> FALSE, push_res |-> NoResult, result |-> c.res]
        ELSE IF c.res.message = "No changes to commit"
        THEN [commit |-> c, pushed |-> FALSE, push_res |-> NoResult, result |-> c.res]
        ELSE IF ~push_result.success
        THEN [commit |-> c, pushed |-> TRUE, push_res |-> push_result,
              result |-> GitOperation(FALSE, "Commit successful but push failed",
                            <<"Commit: ">> \o c.res.details \o <<". Push error: ">>
                                \o push_result.details)]
        ELSE [commit |-> c, pushed |-> TRUE, push_res |-> push_result,
              result |-> GitOperation(TRUE, "Successfully committed and pushed changes",
                            c.res.details \o <<". ">> \o push_result.details)]

\* A file under files/ is written (upload, edit) or a file elsewhere in the
\* repository changes.
EditFiles(inside) ==
    /\ IF inside THEN wt_in' = TRUE /\ UNCHANGED wt_out
       ELSE wt_out' = TRUE /\ UNCHANGED wt_in
    /\ git_last' = GitCall("edit", NoResult, FALSE, FALSE, NoResult, NoResult)
    /\ UNCHANGED <<index_dirty, commits, pushes, schedVars, configVars, fileVars, pathVars, last>>

\* A call of GitService.add_and_commit.
AddAndCommit ==
    /\ commits < MaxCommits
    /\ \E env \in CommitEnv :
         LET c == add_and_commit(env)
         IN  /\ wt_in' = c.wt_in
             /\ index_dirty' = c.index_dirty
             /\ commits' = c.commits
             /\ git_last' = GitCall("add_and_commit", c.res, c.created, FALSE, NoResult, c.res)
    /\ UNCHANGED <<wt_out, pushes, schedVars, configVars, fileVars, pathVars, last>>

\* POST /git/commit-push
CommitAndPush ==
    /\ commits < MaxCommits
    /\ pushes < MaxPushes
    /\ \E cenv \in CommitEnv, penv \in PushEnv :
         LET r == commit_and_push(cenv, penv)
         IN  /\ wt_in' = r.commit.wt_in
             /\ index_dirty' = r.commit.index_dirty
             /\ commits' = r.commit.commits
             /\ pushes' = IF r.pushed THEN pushes + 1 ELSE pushes
             /\ git_last' = GitCall("commit_and_push", r.commit.res, r.commit.created,
                                    r.pushed, r.push_res, r.result)
    /\ UNCHANGED <<wt_out, schedVars, configVars, fileVars, pathVars, last>>

GitInit ==
    /\ repo_available \in BOOLEAN
    /\ auto_pull_on_startup = TRUE
    /\ auto_pull_interval = 1
    /\ is_running = FALSE
    /\ last_pull_time = NoTime
    /\ sync_task = NoTask
    /\ tasks = <<>>
    /\ stop_waiting = {}
    /\ now = 0
    /\ last = Ev("init", "api", NoPull, NoTask, FALSE)
    /\ run_start = 0
    /\ startup_pulls = 0
    /\ loop_pulls = 0
    /\ in_pull = {}
    /\ wt_in \in BOOLEAN
    /\ wt_out \in BOOLEAN
    /\ index_dirty \in BOOLEAN
    /\ commits = 0
    /\ pushes = 0
    /\ git_last = NoGitCall
    /\ user_path = <<>>
    /\ symlinks = {}
    /\ safe_result = NotCalled
    /\ store = EmptyStore
    /\ file_last = NoFileCall

GitNext ==
    \/ \E inside \in BOOLEAN : EditFiles(inside)
    \/ AddAndCommit
    \/ CommitAndPush

GitSpec == GitInit /\ [][GitNext]_vars

(***************************************************************************)
(* The file store as a state machine: calls of FileManager.save_file and   *)
(* GET /files/{file_path}, on a files directory without symbolic links.    *)
(***************************************************************************)
\* The relative paths used: the files directory itself, a file in it, a file
\* in a subdirectory of that name, and an absolute path outside it.
FilePaths == {<<>>, <<"a">>, <<"a", "/", "a">>, <<"/", "a", "a">>}

\* Leading `a` bytes: none, up to the last byte the binary scan reads, just
\* past it, and the display limit.
FilePads == {0, BinaryChunk - 1, BinaryChunk, DisplayLimit}

FileBytes == {<<>>, <<"a">>, <<"CR", "LF">>, <<"NUL">>, <<"BAD">>}

FileContents == {Content(pad, bytes) : pad \in FilePads, bytes \in FileBytes}

\* A call of FileManager.save_file.
SaveFile ==
    /\ \E path \in FilePaths, content \in FileContents :
         \E r \in {save_file(store, symlinks, path, content)} :
             /\ store' = r.store
             /\ file_last' = FileCall("save_file", path, content, <<>>, r.exc,
                                      r.message, 0, NoText,
                                      IF r.exc = "none" THEN <<r.saved_path>> ELSE <<>>,
                                      NoRaise)
    /\ UNCHANGED <<schedVars, configVars, gitVars, pathVars, last>>

\* GET /files/{file_path}
GetFileContent ==
    /\ \E path \in FilePaths :
         \E r \in {get_file_content(store, symlinks, path)} :
             file_last' = FileCall("get_file_content", path, NoContent, <<>>, r.exc,
                                   IF get_file_status(r.exc) = 404
                                   THEN <<"File not found">> ELSE r.message,
                                   get_file_status(r.exc), r.content, <<>>, NoRaise)
    /\ UNCHANGED <<store, schedVars, configVars, gitVars, pathVars, last>>

FileInit ==
    /\ repo_available = TRUE
    /\ auto_pull_on_startup = TRUE
    /\ auto_pull_interval = 1
    /\ is_running = FALSE
    /\ last_pull_time = NoTime
    /\ sync_task = NoTask
    /\ tasks = <<>>
    /\ stop_waiting = {}
    /\ now = 0
    /\ last = Ev("init", "api", NoPull, NoTask, FALSE)
    /\ run_start = 0
    /\ startup_pulls = 0
    /\ loop_pulls = 0
    /\ in_pull = {}
    /\ wt_in = FALSE
    /\ wt_out = FALSE
    /\ index_dirty = FALSE
    /\ commits = 0
    /\ pushes = 0
    /\ git_last = NoGitCall
    /\ user_path = <<>>
    /\ symlinks = {}
    /\ safe_result = NotCalled
    /\ store = EmptyStore
    /\ file_last = NoFileCall

FileNext ==
    \/ SaveFile
    \/ GetFileContent

FileSpec == FileInit /\ [][FileNext]_vars

(***************************************************************************)
(* POST /upload.  The endpoint keeps nothing between requests but the      *)
(* files directory, so one request is followed from each of the            *)
(* directories of InitialStores.                                           *)
(***************************************************************************)
MaxUploadFiles == 3   \* an upload request carries at most this many files

\* A part without a filename, and two names.
UploadNames == {<<>>, <<"a">>, <<"a", "a">>}

\* A small file, one of exactly max_file_size bytes and one a byte over it.
UploadContents ==
    {Content(0, <<"a">>), Content(max_file_size, <<>>), Content(max_file_size, <<"a">>)}

\* The path form field: absent, or the directory `a` (with its slash).
UploadPaths == {<<>>, <<"a", "/">>}

UploadRequests ==
    UNION {[1..k -> {UploadFile(n, c) : n \in UploadNames, c \in UploadContents}] :
             k \in 0..MaxUploadFiles}

UploadFiles ==
    /\ file_last = NoFileCall
    /\ \E files \in UploadRequests, path \in UploadPaths :
         \E r \in {upload_files(store, symlinks, files, path)} :
             /\ store' = r.raised.store
             /\ file_last' = FileCall("upload_files", path, NoContent, files,
                                      r.raised.exc, <<>>, r.status_code, NoText,
                                      r.uploaded_files,
                                      [exc |-> r.raised.exc,
                                       status_code |-> r.raised.status_code,
                                       at |-> r.raised.at,
                                       passed |-> r.raised.passed])
    /\ UNCHANGED <<schedVars, configVars, gitVars, pathVars, last>>

\* The files directory before the request: empty; holding an older file
\* `aa`; holding an older file `a`; holding a directory `a` with an older
\* file `a` in it.
InitialStores ==
    {EmptyStore,
     save_file(EmptyStore, {}, <<"a", "a">>, NoContent).store,
     save_file(EmptyStore, {}, <<"a">>, NoContent).store,
     save_file(EmptyStore, {}, <<"a", "/", "a">>, NoContent).store}

UploadInit ==
    /\ repo_available = TRUE
    /\ auto_pull_on_startup = TRUE
    /\ auto_pull_interval = 1
    /\ is_running = FALSE
    /\ last_pull_time = NoTime
    /\ sync_task = NoTask
    /\ tasks = <<>>
    /\ stop_waiting = {}
    /\ now = 0
    /\ last = Ev("init", "api", NoPull, NoTask, FALSE)
    /\ run_start = 0
    /\ startup_pulls = 0
    /\ loop_pulls = 0
    /\ in_pull = {}
    /\ wt_in = FALSE
    /\ wt_out = FALSE
    /\ index_dirty = FALSE
    /\ commits = 0
    /\ pushes = 0
    /\ git_last = NoGitCall
    /\ user_path = <<>>
    /\ symlinks = {}
    /\ safe_result = NotCalled
    /\ store \in InitialStores
    /\ file_last = NoFileCall

UploadNext == UploadFiles

UploadSpec == UploadInit /\ [][UploadNext]_vars

(***************************************************************************)
(* Properties of the scheduler.                                            *)
(***************************************************************************)
\* The latest step ran perform_pull: from the loop, from the manual-pull
\* endpoint, or as the startup pull of start_auto_sync.
PerformPullCalled ==
    \/ last.op = "perform_pull"
    \/ last.op = "start_auto_sync" /\ ~last.noop /\ auto_pull_on_startup

\* C1: stop_auto_sync called while Running sets is_running to false and
\* cancels the loop task; it returns only once that task has finished; and
\* while the scheduler is Stopped no loop task can start a pull (every task
\* still alive is cancelled, and every pull the loop makes is made while
\* is_running holds).
C1_StopJoinsLoop ==
    /\ (last.op = "stop_auto_sync" /\ ~last.noop) =>
          /\ ~is_running
          /\ last.task # NoTask
          /\ last.task \in stop_waiting
          /\ tasks[last.task].state = "done" \/ tasks[last.task].must_cancel
    /\ last.op = "stop_return" => tasks[last.task].state = "done"
    /\ ~is_running =>
          \A t \in TaskIds : tasks[t].state # "done" => tasks[t].must_cancel
    /\ (last.op = "perform_pull" /\ last.caller = "loop") => is_running

C1_Witness ==
    /\ last.op = "stop_return"
    /\ last.task = sync_task
    /\ ~is_running
    /\ loop_pulls > 0

\* C2: start_auto_sync called while already Running does nothing: no startup
\* pull, no new task, and is_running, last_pull_time, the task handle and
\* every task are left as they were.  (A call is made when the thread is
\* idle; the step that returns from a start's own startup pull is not one.)
C2_StartWhileRunningIsNoop ==
    [][(Idle /\ is_running /\ last'.op = "start_auto_sync") =>
          /\ last'.noop
          /\ ~last'.called
          /\ UNCHANGED schedVars]_vars

C2_Witness ==
    /\ last.op = "start_auto_sync"
    /\ last.noop
    /\ is_running
    /\ tasks[sync_task].state = "sleeping"

\* C3 as stated: every perform_pull call leaves last_pull_time at the
\* current clock reading, also when the repository is unavailable.
C3_AlwaysRecords ==
    PerformPullCalled => last_pull_time = now

\* C3 amended: perform_pull records the clock reading exactly when it invoked
\* the backend's pull (which it does exactly when the repository is
\* available), whatever the pull's result; otherwise last_pull_time keeps
\* its value.
C3_RecordsWhenBackendPulled ==
    [][PerformPullCalled' =>
          /\ last'.called = repo_available
          /\ last_pull_time' = IF repo_available THEN now ELSE last_pull_time]_vars

C3_Witness ==
    /\ PerformPullCalled
    /\ last.called
    /\ ~last.ret
    /\ now > 0
    /\ last_pull_time = now

\* C4: a failed pull does not end the loop.  After a failed periodic pull
\* the task sleeps for another interval, and while the scheduler has stayed
\* Running, once nothing is due, the loop has attempted one pull per
\* interval elapsed since start (2 pulls after 2 intervals; a start that is
\* still inside its startup pull has not taken effect yet).
C4_FailureKeepsLoopGoing ==
    /\ (last.op = "perform_pull" /\ last.caller = "loop" /\ ~last.ret) =>
          /\ tasks[last.task].state = "sleeping"
          /\ tasks[last.task].wake = now + auto_pull_interval
          /\ ~tasks[last.task].must_cancel
    /\ (is_running /\ ~Due /\ Idle) =>
          loop_pulls = (now - run_start) \div auto_pull_interval

C4_Witness ==
    /\ is_running
    /\ ~auto_pull_on_startup
    /\ last.op = "perform_pull" /\ last.caller = "loop" /\ ~last.ret
    /\ now - run_start = 2 * auto_pull_interval
    /\ loop_pulls = 2

\* C5: when stop_auto_sync returns less than one interval after the
\* start_auto_sync it stops, that run made exactly the startup pull if
\* auto_pull_on_startup is set and none otherwise, the loop pulled zero
\* times, and the scheduler is not running.
C5_StartThenStop ==
    (/\ last.op = "stop_return"
     /\ last.task = sync_task
     /\ now - run_start < auto_pull_interval) =>
        /\ ~is_running
        /\ loop_pulls = 0
        /\ startup_pulls = IF auto_pull_on_startup THEN 1 ELSE 0

C5_Witness ==
    /\ last.op = "stop_return"
    /\ last.task = sync_task
    /\ now - run_start < auto_pull_interval
    /\ now > run_start
    /\ auto_pull_on_startup
    /\ startup_pulls = 1

\* C6: perform_pull always returns a boolean.  With the repository
\* unavailable it returns false and does not invoke the backend's pull; when
\* it invokes the pull it returns that pull's success flag, so it returns
\* true only for a pull that reported success.
C6_PullReturnsResult ==
    PerformPullCalled =>
        /\ last.ret \in BOOLEAN
        /\ ~repo_available => ~last.ret /\ ~last.called
        /\ repo_available => last.called /\ last.ret = last.res.success
        /\ last.ret => last.res.message \in {"Successfully pulled changes",
                                             "Already up to date"}

C6_Witness ==
    /\ last.op = "perform_pull"
    /\ last.called
    /\ ~last.ret
    /\ last.res.message = "Merge conflict detected"

\* C7 as stated: once a loop task has been started, only the loop's pull
\* changes last_pull_time.
C7_LoopIsSoleWriter ==
    [][(tasks # <<>> /\ last_pull_time' # last_pull_time) =>
          (last'.op = "perform_pull" /\ last'.caller = "loop")]_vars

\* C7 amended: last_pull_time is changed only by perform_pull when it invokes
\* the backend (from the loop, from the manual-pull endpoint or as the
\* startup pull of start_auto_sync); stop_auto_sync, a start that is a
\* no-op, /git/pull, the status read and the passing of time never change it.
C7_OnlyPerformPullWrites ==
    [][last_pull_time' # last_pull_time =>
          (PerformPullCalled' /\ last'.called /\ last_pull_time' = now)]_vars

C7_Witness ==
    /\ tasks # <<>>
    /\ last.op = "perform_pull"
    /\ last.caller = "manual"
    /\ last.called
    /\ now > 0
    /\ last_pull_time = now

(***************************************************************************)
(* Properties of the path sandbox.                                         *)
(***************************************************************************)
\* The canonical path itself and every directory above it.
SelfAndAncestors(canon) == {SubSeq(canon, 1, k) : k \in 0..Len(canon)}

\* The canonical form of path is the canonical base directory or below it.
InsideBase(path) ==
    Resolve(symlinks, BasePath) \in SelfAndAncestors(Resolve(symlinks, path))

\* C8: get_safe_path returns the sanitized path joined to base; whatever it
\* returns canonicalizes to base or below it; it raises the path error
\* whenever that joined path canonicalizes outside base and never when it
\* canonicalizes inside (no path of the model need exist).
C8_SafePathContained ==
    safe_result.status # "idle" =>
        /\ safe_result.path = JoinPath(BasePath, ParsePath(sanitize_path(user_path)))
        /\ safe_result.status = "ok" => InsideBase(safe_result.path)
        /\ ~InsideBase(safe_result.path) => safe_result.status = "ValueError"
        /\ InsideBase(safe_result.path) => safe_result.status = "ok"

\* A relative path that names a link leaving the files directory is refused.
C8_Witness ==
    /\ safe_result.status = "ValueError"
    /\ StartsWith(safe_result.path.parts, BasePath.parts)
    /\ symlinks # {}
    /\ user_path = <<"a">>

\* s has a `..` path segment followed by `/`.
HasDotDotSegment(s) ==
    \E i \in 1..(Len(s) - 2) :
        /\ SubSeq(s, i, i + 2) = <<".", ".", "/">>
        /\ i = 1 \/ s[i - 1] = "/"

IsAbsoluteAttempt(s) == s # <<>> /\ Head(s) = "/"

\* C9 as stated: every path with a `../` segment and every absolute path is
\* refused.
C9_DotDotAlwaysRefused ==
    (/\ safe_result.status # "idle"
     /\ HasDotDotSegment(user_path) \/ IsAbsoluteAttempt(user_path)) =>
        safe_result.status = "ValueError"

\* C9 amended: a path that starts with `../` or `/` sanitizes to an absolute
\* path, which replaces base in the join; for every path with a `../`
\* segment and every absolute path the call is refused exactly when the
\* sanitized path canonicalizes outside base, so a `../` inside a relative
\* path is rewritten away and the call succeeds.
C9_RefusedOnlyWhenOutside ==
    (/\ safe_result.status # "idle"
     /\ HasDotDotSegment(user_path) \/ IsAbsoluteAttempt(user_path)) =>
        /\ (StartsWith(user_path, <<".", ".", "/">>) \/ IsAbsoluteAttempt(user_path)) =>
              /\ ParsePath(sanitize_path(user_path)).absolute
              /\ safe_result.path = ParsePath(sanitize_path(user_path))
        /\ safe_result.status = "ValueError" <=> ~InsideBase(safe_result.path)

\* `a/../` is rewritten to `a/` and accepted.
C9_Witness ==
    /\ safe_result.status = "ok"
    /\ user_path = <<"a", "/", ".", ".", "/">>
    /\ safe_result.path.parts = BasePath.parts \o << <<"a">> >>

(***************************************************************************)
(* Properties of the repository backend.                                   *)
(***************************************************************************)
\* C10: commit_and_push calls push only after add_and_commit created a
\* commit.  A failed commit step is returned as it is, without a push; "No
\* changes to commit" is returned as that success, without a push; a push
\* that fails after a commit gives success=false with details naming the
\* commit and the push error; success=true with the combined message is
\* returned only when both steps succeeded.
C10_CommitAndPush ==
    git_last.op = "commit_and_push" =>
        /\ git_last.pushed => git_last.created /\ git_last.commit.success
        /\ ~git_last.commit.success =>
              ~git_last.pushed /\ git_last.result = git_last.commit
        /\ (git_last.commit.success /\ ~git_last.created) =>
              /\ ~git_last.pushed
              /\ git_last.result = git_last.commit
              /\ git_last.result.message = "No changes to commit"
        /\ (git_last.pushed /\ ~git_last.push.success) =>
              /\ ~git_last.result.success
              /\ git_last.result.message = "Commit successful but push failed"
              /\ git_last.result.details =
                    <<"Commit: ">> \o git_last.commit.details
                       \o <<". Push error: ">> \o git_last.push.details
        /\ (git_last.result.success /\ git_last.result.message # "No changes to commit") =>
              /\ git_last.created /\ git_last.pushed /\ git_last.push.success
              /\ git_last.result.message = "Successfully committed and pushed changes"
              /\ git_last.result.details =
                    git_last.commit.details \o <<". ">> \o git_last.push.details

C10_Witness ==
    /\ git_last.op = "commit_and_push"
    /\ git_last.created
    /\ git_last.pushed
    /\ ~git_last.push.success
    /\ git_last.result.message = "Commit successful but push failed"
    /\ commits = 1 /\ pushes = 1

\* C11: when add_and_commit is called twice in a row with no change of the
\* files in between, and git raises in neither call, the second call returns
\* success with "No changes to commit" and creates no commit, whatever the
\* state of the working tree (also with dirty or untracked files outside the
\* staged pattern).
C11_SecondCommitIsNoop ==
    [][(/\ git_last.op = "add_and_commit"
        /\ git_last.result.success
        /\ git_last'.op = "add_and_commit"
        /\ git_last'.result.message # "Failed to commit changes")
       => (/\ git_last'.result.success
           /\ git_last'.result.message = "No changes to commit"
           /\ ~git_last'.created
           /\ commits' = commits)]_vars

(***************************************************************************)
(* Properties of the file store and the upload endpoint.                   *)
(***************************************************************************)
\* Why reading relative_path from the files directory must fail, if it must:
\* the path is outside the directory, names no regular file, names a file
\* with a NUL byte among its first 512 bytes, or one larger than 1 MiB.
ReadFailure(relative_path) ==
    LET safe == get_safe_path(symlinks, BasePath, relative_path)
        target == Resolve(symlinks, safe.path)
    IN  IF safe.status # "ok" THEN "PathEscape"
        ELSE IF ~IsFile(store, target) THEN "NotFound"
        ELSE IF \E i \in 1..Len(store[target].content.bytes) :
                   /\ store[target].content.bytes[i] = "NUL"
                   /\ store[target].content.pad + i <= BinaryChunk
        THEN "BinaryContent"
        ELSE IF Size(store[target].content) > DisplayLimit THEN "TooLarge"
        ELSE "none"

ReadFailureKinds == {"NotFound", "BinaryContent", "TooLarge"}

\* C12: reading fails with error types that tell the caller the reason apart
\* (missing or not a regular file, binary content, too large): two reads that
\* fail for different reasons raise different exception types, and the
\* endpoint answers a read of a missing file with 404, not with 500.
C12_TypedReadErrors ==
    /\ \A p, q \in FilePaths :
         (/\ ReadFailure(p) \in ReadFailureKinds
          /\ ReadFailure(q) \in ReadFailureKinds
          /\ ReadFailure(p) # ReadFailure(q))
         => get_file_content(store, symlinks, p).exc
               # get_file_content(store, symlinks, q).exc
    /\ (file_last.op = "get_file_content" /\ ReadFailure(file_last.path) = "NotFound")
         => file_last.exc = "FileNotFoundError" /\ file_last.status_code = 404

\* C13: an uploaded file longer than max_file_size is never passed to
\* save_file, and the request that it stops is answered with the size-limit
\* status 413, not with the status of an internal error.
C13_OversizeRejected ==
    file_last.op = "upload_files" =>
        /\ \A i \in file_last.raised.passed :
              Size(file_last.files[i].content) <= max_file_size
        /\ (/\ file_last.raised.at # 0
            /\ Size(file_last.files[file_last.raised.at].content) > max_file_size)
           => file_last.status_code = 413

\* Content that is valid UTF-8 text, under 1 MiB and free of NUL bytes.
IsPlainText(c) ==
    /\ Size(c) < DisplayLimit
    /\ \A i \in 1..Len(c.bytes) : c.bytes[i] \notin {"NUL", "BAD"}

\* C14: when save_file has written plain text (valid UTF-8, under 1 MiB, no
\* NUL byte) to a path and the next operation reads that path, the read
\* succeeds and its content, as bytes, is what the latest save wrote.
C14_RoundTrip ==
    [][(/\ file_last.op = "save_file"
        /\ file_last.exc = "none"
        /\ IsPlainText(file_last.content)
        /\ file_last'.op = "get_file_content"
        /\ file_last'.path = file_last.path)
       => (/\ file_last'.exc = "none"
           /\ file_last'.status_code = 200
           /\ file_last'.text.pad = file_last.content.pad
           /\ EncodeText(file_last'.text.chars) = file_last.content.bytes)]_vars

\* Where the file of the given name of an upload request is to be written.
UploadTarget(path, filename) ==
    Resolve(symlinks,
            JoinPath(BasePath,
                     ParsePath(sanitize_path(IF path # <<>>
                                             THEN Strip(path, {"/"}) \o <<"/">> \o filename
                                             ELSE filename))))

\* C18: a multi-file upload is handled file by file in request order and is
\* not atomic.  When a file of the request is rejected as oversize or fails
\* to save, every named file before it was passed to save_file and is in the
\* files directory with the content the request gave it (that of the last
\* such file, if several had the same target), no other file of the
\* directory has changed or appeared, no later file was passed to save_file,
\* and the response is a failure that lists no saved file.
C18_UploadNotAtomic ==
    [][(file_last'.op = "upload_files" /\ file_last'.raised.at # 0)
       => LET files == file_last'.files
              at == file_last'.raised.at
              before == {i \in 1..(at - 1) : files[i].filename # <<>>}
              target(i) == UploadTarget(file_last'.path, files[i].filename)
              latest(i) == CHOOSE j \in before :
                              /\ target(j) = target(i)
                              /\ \A k \in before : target(k) = target(i) => k <= j
          IN  /\ file_last'.raised.passed \in {before, before \cup {at}}
              /\ \A i \in before :
                    /\ IsFile(store', target(i))
                    /\ store'[target(i)].content = files[latest(i)].content
              /\ \A p \in DOMAIN store' :
                    (IsFile(store', p) /\ p \notin {target(i) : i \in before})
                       => p \in DOMAIN store /\ store'[p] = store[p]
              /\ \A p \in DOMAIN store : p \in DOMAIN store'
              /\ file_last'.status_code = 500
              /\ file_last'.saved = <<>>]_vars

\* A request of three files whose second is oversize: the first is in the
\* files directory, the third is not, and the answer is a failure.
C18_Witness ==
    /\ file_last.op = "upload_files"
    /\ Len(file_last.files) = 3
    /\ file_last.raised.at = 2
    /\ file_last.raised.exc = "HTTPException"
    /\ file_last.raised.passed = {1}
    /\ file_last.files[1].filename = <<"a">>
    /\ file_last.files[3].filename = <<"a", "a">>
    /\ Size(file_last.files[3].content) <= max_file_size
    /\ file_last.path = <<>>
    /\ IsFile(store, UploadTarget(<<>>, <<"a">>))
    /\ store[UploadTarget(<<>>, <<"a">>)].content = file_last.files[1].content
    /\ ~IsFile(store, UploadTarget(<<>>, <<"a", "a">>))
    /\ file_last.status_code = 500
    /\ file_last.saved = <<>>

(***************************************************************************)
(* Further properties of the scheduler.                                    *)
(***************************************************************************)
\* C15: every pull of the periodic loop begins, after the interval wait, in
\* a state where is_running holds and the task has not been cancelled; a
\* stop_auto_sync that takes effect cancels the loop task, whatever point of
\* its wait it has reached; and the next step of a cancelled task ends it
\* without a pull, through the branch that handles the cancellation (not
\* the one for errors), also when the scheduler has been started again.
C15_NoPullAfterStop ==
    [][/\ ((last'.op \in {"pull_begin", "perform_pull"}) /\ last'.caller = "loop") =>
             /\ is_running
             /\ tasks[last'.task].state = "ready"
             /\ ~tasks[last'.task].must_cancel
       /\ (is_running /\ ~is_running') =>
             /\ sync_task # NoTask
             /\ tasks[sync_task].state # "done" => tasks'[sync_task].must_cancel
       /\ \A t \in TaskIds :
             (tasks[t].must_cancel /\ tasks'[t] # tasks[t]) =>
                /\ tasks'[t].state = "done"
                /\ last'.op \in {"sync_loop_cancelled", "sync_loop_begin"}
                /\ last'.task = t
                /\ ~last'.called
                /\ UNCHANGED <<loop_pulls, last_pull_time, in_pull>>]_vars

\* A stop during the wait, a new start, and then the old task resumes: it
\* ends as cancelled although is_running holds again.
C15_Witness ==
    /\ last.op = "sync_loop_cancelled"
    /\ tasks[last.task].state = "done"
    /\ is_running
    /\ sync_task # last.task
    /\ loop_pulls = 0

\* The loop tasks that can still issue a pull: not finished, not cancelled.
PullingTasks == {t \in TaskIds : tasks[t].state # "done" /\ ~tasks[t].must_cancel}

\* C16: scheduled pulls never overlap.  Whatever start_auto_sync and
\* stop_auto_sync calls have been made, at most one loop task can issue
\* pulls (every other task has finished or is cancelled), that task is the
\* current one of a Running scheduler, and at most one pull of the loop is
\* in progress, made by that task.
C16_OneLoopAtATime ==
    /\ Cardinality(PullingTasks) <= 1
    /\ \A t \in PullingTasks : is_running /\ sync_task = t
    /\ Cardinality({c \in in_pull : c.caller = "loop"}) <= 1
    /\ \A c \in in_pull : c.caller = "loop" => c.task \in PullingTasks

\* stop followed by start while the old loop is still being cancelled: the
\* old task is alive but cancelled, the new one waits for its first interval.
C16_Witness ==
    /\ Len(tasks) = 2
    /\ tasks[1].state # "done" /\ tasks[1].must_cancel
    /\ 1 \in stop_waiting
    /\ is_running /\ sync_task = 2
    /\ tasks[2].state = "sleeping"
    /\ PullingTasks = {2}

\* A manual pull can be started: by POST /sync/manual-pull (which enters
\* GitService.pull, or returns at once when the repository is unavailable)
\* and by POST /git/pull.
ManualPullAccepted ==
    /\ ENABLED (BeginPull("manual", NoTask) \/ ManualSyncPull)
    /\ ENABLED (BeginPull("api", NoTask) \/ PullChanges)

\* C17 as stated: manual pulls and the loop's pull are not serialized, so
\* while a pull of the loop is in progress a manual pull can be started next
\* to it (two backend pulls in progress at the same time).
C17_PullsOverlap ==
    (\E c \in in_pull : c.caller = "loop") => ManualPullAccepted

\* C17 amended: no lock serializes the pulls, but each runs to its end on the
\* event loop's thread: at most one call of GitService.pull is in progress
\* at any time, and while one is, no other is started.  Between handler runs
\* a manual pull is accepted whether the scheduler is Stopped or Running, and
\* it changes neither is_running nor the loop task.
C17_PullsSerialized ==
    /\ [](/\ Cardinality(in_pull) <= 1
          /\ Idle => ManualPullAccepted
          /\ ~Idle => ~ENABLED (\E caller \in PullCallers, t \in TaskIds \cup {NoTask} :
                                   BeginPull(caller, t)))
    /\ [][(last'.caller = "manual" \/ last'.op = "git_pull")
             => UNCHANGED <<is_running, sync_task, tasks, stop_waiting>>]_vars

\* A manual pull is in progress while the scheduler is Running and the loop
\* task, its wait over, is ready to pull: the loop's pull has to wait.
C17_Witness ==
    /\ in_pull = {PullCall("manual", NoTask)}
    /\ is_running
    /\ sync_task # NoTask
    /\ tasks[sync_task].state = "ready"
    /\ ~tasks[sync_task].must_cancel

====
